---- MODULE Spec2Model ----
(***************************************************************************)
(* The OGC Juju plugin (ogc_plugins_juju.py, Juju.process and the steps it *)
(* calls) as a state machine.  One run is: the plugin's conflicts() check, *)
(* then process().  Every external command (sh.juju, sh.charm,             *)
(* sh.juju_wait, sh.env, cmd_ok) is one step of the run: the step appends  *)
(* the command and its result to the trace, and the command's result is    *)
(* chosen by the environment.                                              *)
(***************************************************************************)
EXTENDS Integers, Sequences, FiniteSets, TLC

VARIABLES
    opts,             \* the plugin's option tree (what self.opt reads)
    pc,               \* position of the run
    trace,            \* external commands issued so far, with their results
    raised,           \* the exception that ended the run, None if none
    charm_pull_path,  \* _deploy's local charm_pull_path, None before a pull
    cfg_i,            \* index of the next entry of the config loop
    other             \* the temporary paths of a second, concurrent run

vars == <<opts, pc, trace, raised, charm_pull_path, cfg_i, other>>

-----------------------------------------------------------------------------
(* Bounds *)

MaxConfig == 2        \* longest list of config assignments
MaxUuid == 2          \* number of distinct uuid4 suffixes that can be drawn
MaxDefaults == 2      \* longest bootstrap.model-default / bootstrap.config list

-----------------------------------------------------------------------------
(* Option values *)

None == "None"

\* a deploy.timeout that is not set (or is 0) is falsy
NoTimeout == 0

cloud == "aws"
controller == "c1"
model == "m1"

\* tempfile.gettempdir()
gettempdir == "/tmp"

\* the file name tempfile.mkstemp() returns in _deploy
mkstemp == "/tmp/tmpovl"

\* the script file name of _run
tmp_script_path == "/tmp/tmprun"

\* the file name tempfile.mkstemp() returns in the _deploy of a second
\* run: mkstemp creates its file exclusively, it never returns the name of
\* a file that exists, so it is not the name the first run got
mkstemp_other == "/tmp/tmpovl_"

\* a second run that has generated no temporary path yet
NoOther == [charm_pull_path |-> None, tmp_file_path |-> None]

BundleRefs == {"cs:~org/bundle", "bundles/my.yaml"}

ConfigPool == [i \in 1..MaxConfig |-> "app" \o ToString(i) \o " x=true"]

ConfigLists == {SubSeq(ConfigPool, 1, n) : n \in 0..MaxConfig}

ModelDefaultPool == [i \in 1..MaxDefaults |-> "md" \o ToString(i) \o "=true"]

ConfigDefaultPool == [i \in 1..MaxDefaults |-> "cd" \o ToString(i) \o "=1"]

\* the options under "bootstrap": the mapping is absent (present = FALSE,
\* every key reads as unset) or a non-empty mapping
BootstrapOpts ==
    { b \in [ present            : BOOLEAN,
              replace_controller : BOOLEAN,
              disable_add_model  : BOOLEAN,
              run                : {None, "#!/bin/bash"},
              constraints        : {None, "cores=2"},
              series             : {None, "bionic"},
              debug              : BOOLEAN,
              model_default      : {SubSeq(ModelDefaultPool, 1, n) :
                                        n \in 0..MaxDefaults},
              config             : {SubSeq(ConfigDefaultPool, 1, n) :
                                        n \in 0..MaxDefaults} ] :
        ~b.present =>
            /\ ~b.replace_controller /\ ~b.disable_add_model /\ b.run = None
            /\ b.constraints = None /\ b.series = None /\ ~b.debug
            /\ b.model_default = <<>> /\ b.config = <<>> }

\* does the bootstrap mapping set any option that only shapes the
\* bootstrap command line
ShapesBootstrap(b) ==
    \/ b.constraints # None \/ b.series # None \/ b.debug
    \/ b.model_default # <<>> \/ b.config # <<>>

\* the options under "deploy": absent, or a mapping that names a bundle,
\* a charm, or both
DeployOpts ==
    { d \in [ present     : BOOLEAN,
              reuse       : BOOLEAN,
              bundle      : {None} \cup BundleRefs,
              charm       : {None, "cs:~org/charm"},
              overlay     : {None, "applications: {}"},
              channel     : {None, "edge"},
              constraints : {None, "mem=4G"},
              series      : {None, "focal"},
              wait        : BOOLEAN,
              timeout     : {NoTimeout, 10} ] :
        IF d.present
        THEN d.bundle # None \/ d.charm # None
        ELSE /\ ~d.reuse /\ ~d.wait /\ d.timeout = NoTimeout
             /\ d.bundle = None /\ d.charm = None /\ d.overlay = None
             /\ d.channel = None /\ d.constraints = None /\ d.series = None }

\* The option trees the runs start from.  The options that only shape the
\* bootstrap command line are varied in the runs that have no deploy
\* section; the deploy options are varied in the others.
Options ==
    { o \in [ bootstrap : BootstrapOpts,
              deploy    : DeployOpts,
              force     : BOOLEAN,
              config    : ConfigLists,
              teardown  : BOOLEAN ] :
        o.deploy.present => ~ShapesBootstrap(o.bootstrap) }

-----------------------------------------------------------------------------
(* Pure helpers *)

StartsWith(s, p) == Len(s) >= Len(p) /\ SubSeq(s, 1, Len(p)) = p

\* config.split(" ") of a two-word entry
Split(s) ==
    LET i == CHOOSE k \in 1..Len(s) : SubSeq(s, k, k) = " "
    IN  <<SubSeq(s, 1, i - 1), SubSeq(s, i + 1, Len(s))>>

_fmt_controller_model == controller \o ":" \o model

\* str(uuid.uuid4()).split("-").pop(): one of the suffixes a draw can give
UuidSuffixes == {"uuid" \o ToString(i) : i \in 1..MaxUuid}

\* _bootstrap: the loops that append a flag before each entry of a list
RECURSIVE FlagEach(_, _)
FlagEach(flag, entries) ==
    IF entries = <<>> THEN <<>>
    ELSE <<flag, Head(entries)>> \o FlagEach(flag, Tail(entries))

Op(op, by, args, res) == [op |-> op, by |-> by, args |-> args, res |-> res]

-----------------------------------------------------------------------------
(* Argument lists *)

\* _deploy: the local directory a charmstore bundle is pulled to
CharmPullPath(tmpsuffix) == gettempdir \o "/" \o tmpsuffix

\* _deploy: charm_pull_args
CharmPullArgs(o, path) ==
    <<o.deploy.bundle>> \o
    (IF o.deploy.channel # None
     THEN <<"--channel", o.deploy.channel, path>>
     ELSE <<>>)

\* mutant of PullsBundle: every bundle is pulled, charmstore or not
PullsBundle_any_bundle(o) ==
    /\ o.deploy.charm = None
    /\ o.deploy.bundle # None

\* _deploy: is the bundle fetched from the charmstore first
PullsBundle(o) ==
    /\ o.deploy.charm = None
    /\ o.deploy.bundle # None
    /\ StartsWith(o.deploy.bundle, "cs:")

\* _deploy: what is deployed
DeployTarget(o, path) ==
    IF o.deploy.charm # None THEN o.deploy.charm
    ELSE IF PullsBundle(o) THEN path \o "/bundle.yaml"
    ELSE o.deploy.bundle

\* mutant of OverlayArgs: the overlay is passed whatever is deployed
OverlayArgs_without_bundle(o) ==
    IF o.deploy.overlay # None
    THEN <<"--overlay", mkstemp>>
    ELSE <<>>

\* _deploy: the overlay arguments
OverlayArgs(o) ==
    IF o.deploy.bundle # None /\ o.deploy.overlay # None
    THEN <<"--overlay", mkstemp>>
    ELSE <<>>

\* mutant of DeployCmdArgs: the channel is appended before the overlay
DeployCmdArgs_channel_first(o, path) ==
    <<"-m", _fmt_controller_model, DeployTarget(o, path)>>
    \o (IF o.deploy.channel # None
        THEN <<"--channel", o.deploy.channel>> ELSE <<>>)
    \o OverlayArgs(o)
    \o (IF o.deploy.constraints # None
        THEN <<"--constraints", "'" \o o.deploy.constraints \o "'">> ELSE <<>>)
    \o (IF o.deploy.series # None
        THEN <<"--series", o.deploy.series>> ELSE <<>>)
    \o (IF o.force THEN <<"--force">> ELSE <<>>)

\* _deploy: deploy_cmd_args
DeployCmdArgs(o, path) ==
    <<"-m", _fmt_controller_model, DeployTarget(o, path)>>
    \o OverlayArgs(o)
    \o (IF o.deploy.channel # None
        THEN <<"--channel", o.deploy.channel>> ELSE <<>>)
    \o (IF o.deploy.constraints # None
        THEN <<"--constraints", "'" \o o.deploy.constraints \o "'">> ELSE <<>>)
    \o (IF o.deploy.series # None
        THEN <<"--series", o.deploy.series>> ELSE <<>>)
    \o (IF o.force THEN <<"--force">> ELSE <<>>)

\* _teardown: the destroy-controller command
TeardownArgs ==
    <<"destroy-controller", "--destroy-all-models", "--destroy-storage",
      "-y", controller>>

\* mutant of BootstrapCmdArgs: the --config loop runs before the
\* --model-default loop
BootstrapCmdArgs_config_first(o) ==
    <<"bootstrap", cloud, controller>>
    \o (IF o.bootstrap.constraints # None
        THEN <<"--bootstrap-constraints", o.bootstrap.constraints>> ELSE <<>>)
    \o (IF o.bootstrap.series # None
        THEN <<"--bootstrap-series", o.bootstrap.series>> ELSE <<>>)
    \o (IF o.force THEN <<"--force">> ELSE <<>>)
    \o FlagEach("--config", o.bootstrap.config)
    \o FlagEach("--model-default", o.bootstrap.model_default)
    \o (IF o.bootstrap.debug THEN <<"--debug">> ELSE <<>>)

\* _bootstrap: bootstrap_cmd_args
BootstrapCmdArgs(o) ==
    <<"bootstrap", cloud, controller>>
    \o (IF o.bootstrap.constraints # None
        THEN <<"--bootstrap-constraints", o.bootstrap.constraints>> ELSE <<>>)
    \o (IF o.bootstrap.series # None
        THEN <<"--bootstrap-series", o.bootstrap.series>> ELSE <<>>)
    \o (IF o.force THEN <<"--force">> ELSE <<>>)
    \o FlagEach("--model-default", o.bootstrap.model_default)
    \o FlagEach("--config", o.bootstrap.config)
    \o (IF o.bootstrap.debug THEN <<"--debug">> ELSE <<>>)

\* _bootstrap and _add_model: add_model_args
AddModelArgs == <<"add-model", "-c", controller, model, cloud>>

\* mutant of DeployTimeout: no default, an unset deploy.timeout arms no
\* timer
DeployTimeout_no_default(o) == o.deploy.timeout

\* _wait: deploy_timeout
DeployTimeout(o) ==
    IF o.deploy.timeout # NoTimeout THEN o.deploy.timeout ELSE 7200

\* _wait: the juju-wait command, with its _timeout
WaitArgs(o) ==
    <<"-e", _fmt_controller_model, "-w", "-r3",
      "_timeout=" \o ToString(DeployTimeout(o))>>

\* process: one juju config command
ConfigArgs(config) ==
    <<"-m", _fmt_controller_model, Split(config)[1], Split(config)[2]>>

-----------------------------------------------------------------------------
(* Control flow of process(): which command, if any, comes next *)

\* mutant of conflicts: the check reads the overlay instead of the bundle
conflicts_reads_overlay(o) == o.deploy.overlay # None /\ o.deploy.charm # None

\* conflicts: does the check raise SpecConfigException
conflicts(o) == o.deploy.bundle # None /\ o.deploy.charm # None

\* mutant of AfterDeployBlock: the teardown is only done for a run that
\* deployed
AfterDeployBlock_needs_deploy(o) ==
    IF o.teardown /\ o.deploy.present THEN "teardown" ELSE "done"

\* process: "if self.opt('teardown')"
AfterDeployBlock(o) == IF o.teardown THEN "teardown" ELSE "done"

\* mutant of AfterConfig: juju-wait is run whatever deploy.wait says
AfterConfig_always_waits(o) == "wait"

\* _wait: "if deploy_wait"
AfterConfig(o) == IF o.deploy.wait THEN "wait" ELSE AfterDeployBlock(o)

\* mutant of AfterDeploy: _wait is only called at the end of the config loop
AfterDeploy_wait_in_loop(o) ==
    IF Len(o.config) > 0 THEN "config" ELSE AfterDeployBlock(o)

\* process: "if config_sets"
AfterDeploy(o) == IF Len(o.config) > 0 THEN "config" ELSE AfterConfig(o)

\* _deploy: the charmstore branch pulls before it deploys
DeployStart(o) == IF PullsBundle(o) THEN "pull" ELSE "deploy"

\* process: "if self.opt('deploy')" and the add-model that bootstrap left out
AfterBootstrap(o) ==
    IF o.deploy.present
    THEN IF o.bootstrap.disable_add_model THEN "add_model" ELSE DeployStart(o)
    ELSE AfterDeployBlock(o)

\* mutant of ShouldBootstrap: reuse is not looked at
ShouldBootstrap_ignores_reuse(o) == o.bootstrap.present

\* process: "if not reuse and bootstrap"
ShouldBootstrap(o) == ~o.deploy.reuse /\ o.bootstrap.present

\* _bootstrap: "if replace_controller"
BootstrapStart(o) ==
    IF o.bootstrap.replace_controller THEN "replace_teardown" ELSE "bootstrap"

\* mutant of AfterBootstrapCmd: the model is added whatever the option says
AfterBootstrapCmd_always_adds(o) == "bootstrap_add_model"

\* mutant of AfterBootstrapCmd: the bootstrap never adds the model
AfterBootstrapCmd_never_adds(o) == AfterBootstrap(o)

\* _bootstrap: "if not disable_add_model"
AfterBootstrapCmd(o) ==
    IF ~o.bootstrap.disable_add_model
    THEN "bootstrap_add_model"
    ELSE AfterBootstrap(o)

\* mutant of ProcessStart: the runner override is looked at after the
\* bootstrap
ProcessStart_bootstrap_first(o) ==
    IF ShouldBootstrap(o) THEN BootstrapStart(o)
    ELSE IF o.bootstrap.run # None THEN "_run"
    ELSE AfterBootstrap(o)

\* mutant of ProcessStart: replace-controller is honoured by process
\* itself, before reuse is looked at
ProcessStart_replace_before_reuse(o) ==
    IF o.bootstrap.run # None THEN "_run"
    ELSE IF o.bootstrap.replace_controller THEN "replace_teardown"
    ELSE IF ShouldBootstrap(o) THEN BootstrapStart(o)
    ELSE AfterBootstrap(o)

\* process: the runner override comes before everything else
ProcessStart(o) ==
    IF o.bootstrap.run # None THEN "_run"
    ELSE IF ShouldBootstrap(o) THEN BootstrapStart(o)
    ELSE AfterBootstrap(o)

-----------------------------------------------------------------------------
(* The run *)

Results == {"ok", "error"}

\* juju-wait can also be killed by its _timeout
WaitResults == {"ok", "error", "timeout"}

Init ==
    /\ opts \in Options
    /\ pc = "conflicts"
    /\ trace = <<>>
    /\ raised = None
    /\ charm_pull_path = None
    /\ cfg_i = 1
    /\ other = NoOther

\* mutant of Fatal: the requested teardown still runs after a failure
Fatal_then_teardown(cmd, exc, next) ==
    /\ trace' = Append(trace, cmd)
    /\ IF cmd.res = "ok"
       THEN pc' = next /\ raised' = None
       ELSE pc' = AfterDeployBlock(opts) /\ raised' = exc

\* a command that ends the run with `exc` when it fails
Fatal(cmd, exc, next) ==
    /\ trace' = Append(trace, cmd)
    /\ IF cmd.res = "ok"
       THEN pc' = next /\ raised' = None
       ELSE pc' = "done" /\ raised' = exc

\* the plugin's conflicts() is checked before process() is called
CheckConflicts ==
    /\ pc = "conflicts"
    /\ IF conflicts(opts)
       THEN pc' = "done" /\ raised' = "SpecConfigException"
       ELSE pc' = "process" /\ raised' = None
    /\ UNCHANGED <<opts, other, trace, charm_pull_path, cfg_i>>

\* process: entry, up to the first command
Process ==
    /\ pc = "process"
    /\ pc' = ProcessStart(opts)
    /\ UNCHANGED <<opts, other, trace, raised, charm_pull_path, cfg_i>>

\* _run: the override script
Run ==
    /\ pc = "_run"
    /\ \E res \in Results :
         Fatal(Op("run-override", "_run", <<tmp_script_path>>, res),
               "SpecProcessException", "done")
    /\ UNCHANGED <<opts, other, charm_pull_path, cfg_i>>

\* mutant of Teardown: the failure is raised instead of logged
Teardown_raises(by, next) ==
    \E res \in Results :
        /\ Fatal(Op("teardown", by, TeardownArgs, res),
                 "SpecProcessException", next)
        /\ UNCHANGED <<opts, other, charm_pull_path, cfg_i>>

\* _teardown: a failure is logged and swallowed
Teardown(by, next) ==
    /\ \E res \in Results :
         trace' = Append(trace, Op("teardown", by, TeardownArgs, res))
    /\ pc' = next
    /\ UNCHANGED <<opts, other, raised, charm_pull_path, cfg_i>>

\* _bootstrap: the teardown of replace-controller
ReplaceTeardown ==
    /\ pc = "replace_teardown"
    /\ Teardown("_bootstrap", "bootstrap")

\* mutant of Bootstrap: a bootstrap that failed is tried a second time
Bootstrap_retries_once ==
    /\ pc = "bootstrap"
    /\ \E res \in Results :
         /\ trace' = Append(trace, Op("bootstrap", "_bootstrap",
                                      BootstrapCmdArgs(opts), res))
         /\ IF res = "ok"
            THEN pc' = AfterBootstrapCmd(opts) /\ raised' = None
            ELSE IF \E i \in DOMAIN trace : trace[i].op = "bootstrap"
            THEN pc' = "done" /\ raised' = "SpecProcessException"
            ELSE pc' = "bootstrap" /\ raised' = None
    /\ UNCHANGED <<opts, other, charm_pull_path, cfg_i>>

\* _bootstrap: the bootstrap command
Bootstrap ==
    /\ pc = "bootstrap"
    /\ \E res \in Results :
         Fatal(Op("bootstrap", "_bootstrap", BootstrapCmdArgs(opts), res),
               "SpecProcessException", AfterBootstrapCmd(opts))
    /\ UNCHANGED <<opts, other, charm_pull_path, cfg_i>>

\* _bootstrap: the add-model that follows a bootstrap
BootstrapAddModel ==
    /\ pc = "bootstrap_add_model"
    /\ \E res \in Results :
         Fatal(Op("add-model", "_bootstrap", AddModelArgs, res),
               "SpecProcessException", AfterBootstrap(opts))
    /\ UNCHANGED <<opts, other, charm_pull_path, cfg_i>>

\* _add_model, called by process before _deploy
AddModel ==
    /\ pc = "add_model"
    /\ \E res \in Results :
         Fatal(Op("add-model", "_add_model", AddModelArgs, res),
               "SpecProcessException", DeployStart(opts))
    /\ UNCHANGED <<opts, other, charm_pull_path, cfg_i>>

\* _deploy: charm pull of a charmstore bundle; sh's error is not caught
Pull ==
    /\ pc = "pull"
    /\ \E tmpsuffix \in UuidSuffixes, res \in Results :
         /\ charm_pull_path' = CharmPullPath(tmpsuffix)
         /\ Fatal(Op("pull", "_deploy",
                     CharmPullArgs(opts, charm_pull_path'), res),
                  "ErrorReturnCode", "deploy")
    /\ UNCHANGED <<opts, other, cfg_i>>

\* _deploy: juju deploy
Deploy ==
    /\ pc = "deploy"
    /\ \E res \in Results :
         Fatal(Op("deploy", "_deploy",
                  DeployCmdArgs(opts, charm_pull_path), res),
               "SpecProcessException", AfterDeploy(opts))
    /\ UNCHANGED <<opts, other, charm_pull_path, cfg_i>>

\* mutant of ConfigSet: a failed config command is skipped over
ConfigSet_best_effort ==
    /\ pc = "config"
    /\ \E res \in Results :
         trace' = Append(trace, Op("config-set", "process",
                                   ConfigArgs(opts.config[cfg_i]), res))
    /\ pc' = IF cfg_i < Len(opts.config) THEN "config" ELSE AfterConfig(opts)
    /\ cfg_i' = cfg_i + 1
    /\ UNCHANGED <<opts, other, raised, charm_pull_path>>

\* process: one pass of the config loop; sh's error is not caught
ConfigSet ==
    /\ pc = "config"
    /\ \E res \in Results :
         /\ Fatal(Op("config-set", "process",
                     ConfigArgs(opts.config[cfg_i]), res),
                  "ErrorReturnCode",
                  IF cfg_i < Len(opts.config)
                  THEN "config" ELSE AfterConfig(opts))
         /\ cfg_i' = IF res = "ok" THEN cfg_i + 1 ELSE cfg_i
    /\ UNCHANGED <<opts, other, charm_pull_path>>

\* mutant of Wait: the timeout is caught and only logged
Wait_logs_timeout ==
    /\ pc = "wait"
    /\ \E res \in WaitResults :
         /\ trace' = Append(trace, Op("wait", "_wait", WaitArgs(opts), res))
         /\ IF res = "error"
            THEN pc' = "done" /\ raised' = "SpecProcessException"
            ELSE pc' = AfterDeployBlock(opts) /\ raised' = None
    /\ UNCHANGED <<opts, other, charm_pull_path, cfg_i>>

\* mutant of Wait: the config loop is run (again) after the wait
Wait_then_config ==
    /\ pc = "wait"
    /\ \E res \in WaitResults :
         Fatal(Op("wait", "_wait", WaitArgs(opts), res),
               IF res = "timeout"
               THEN "TimeoutException" ELSE "SpecProcessException",
               IF /\ Len(opts.config) > 0
                  /\ Cardinality({i \in DOMAIN trace :
                                     trace[i].op = "config-set"})
                        = Len(opts.config)
               THEN "config" ELSE AfterDeployBlock(opts))
    /\ cfg_i' = 1
    /\ UNCHANGED <<opts, other, charm_pull_path>>

\* _wait: juju-wait, bounded by _timeout; only ErrorReturnCode is caught
Wait ==
    /\ pc = "wait"
    /\ \E res \in WaitResults :
         Fatal(Op("wait", "_wait", WaitArgs(opts), res),
               IF res = "timeout"
               THEN "TimeoutException" ELSE "SpecProcessException",
               AfterDeployBlock(opts))
    /\ UNCHANGED <<opts, other, charm_pull_path, cfg_i>>

\* mutant of FinalTeardown: a failed destroy-controller is raised
FinalTeardown_raises ==
    /\ pc = "teardown"
    /\ Teardown_raises("process", "done")

\* process: the final teardown
FinalTeardown ==
    /\ pc = "teardown"
    /\ Teardown("process", "done")

Next ==
    \/ CheckConflicts
    \/ Process
    \/ Run
    \/ ReplaceTeardown
    \/ Bootstrap
    \/ BootstrapAddModel
    \/ AddModel
    \/ Pull
    \/ Deploy
    \/ ConfigSet
    \/ Wait
    \/ FinalTeardown

Spec == Init /\ [][Next]_vars

-----------------------------------------------------------------------------
(* The run in time: juju-wait as a long-running command *)

\* _wait: juju-wait is started and its output is iterated over
WaitStart ==
    /\ pc = "wait"
    /\ pc' = "waiting"
    /\ UNCHANGED <<opts, other, trace, raised, charm_pull_path, cfg_i>>

\* _wait: the running juju-wait ends with `res`
WaitEnds(res) ==
    /\ pc = "waiting"
    /\ Fatal(Op("wait", "_wait", WaitArgs(opts), res),
             IF res = "timeout"
             THEN "TimeoutException" ELSE "SpecProcessException",
             AfterDeployBlock(opts))
    /\ UNCHANGED <<opts, other, charm_pull_path, cfg_i>>

\* juju-wait reports that the deployment has settled
WaitSettles == WaitEnds("ok")

\* juju-wait exits with an error
WaitFails == WaitEnds("error")

\* _wait: the timer of _timeout=deploy_timeout kills juju-wait; a timer is
\* armed when the value passed is not falsy
WaitTimesOut ==
    /\ DeployTimeout(opts) # NoTimeout
    /\ WaitEnds("timeout")

\* the steps that are the return of an external command other than
\* juju-wait, or a step of the plugin itself
ReturnOfCommand ==
    \/ CheckConflicts
    \/ Process
    \/ Run
    \/ ReplaceTeardown
    \/ Bootstrap
    \/ BootstrapAddModel
    \/ AddModel
    \/ Pull
    \/ Deploy
    \/ ConfigSet
    \/ FinalTeardown

LiveNext ==
    \/ ReturnOfCommand
    \/ WaitStart
    \/ WaitSettles
    \/ WaitFails
    \/ WaitTimesOut

\* Every command other than juju-wait returns, and the timer of sh fires;
\* that the deployment settles or that juju-wait fails is not assumed.
LiveSpec ==
    /\ Init
    /\ [][LiveNext]_vars
    /\ WF_vars(ReturnOfCommand)
    /\ WF_vars(WaitStart)
    /\ WF_vars(WaitTimesOut)

-----------------------------------------------------------------------------
(* Two runs at once: a second run of the plugin on the same machine *)

\* the option trees of the runs that have a second run beside them: the
\* options that only shape a command line are left unset
ConcOptions ==
    { o \in Options :
        /\ ~ShapesBootstrap(o.bootstrap)
        /\ o.deploy.constraints = None /\ o.deploy.series = None
        /\ ~o.force }

ConcInit ==
    /\ Init
    /\ opts \in ConcOptions

\* _deploy of the second run: its charm_pull_path, from its own uuid4
OtherPulls ==
    /\ pc # "done"
    /\ other.charm_pull_path = None
    /\ \E tmpsuffix \in UuidSuffixes :
         other' = [other EXCEPT !.charm_pull_path = CharmPullPath(tmpsuffix)]
    /\ UNCHANGED <<opts, pc, trace, raised, charm_pull_path, cfg_i>>

\* _deploy of the second run: its overlay file, from mkstemp
OtherMkstemp ==
    /\ pc # "done"
    /\ other.tmp_file_path = None
    /\ other' = [other EXCEPT !.tmp_file_path = mkstemp_other]
    /\ UNCHANGED <<opts, pc, trace, raised, charm_pull_path, cfg_i>>

ConcNext ==
    \/ Next
    \/ OtherPulls
    \/ OtherMkstemp

ConcSpec == ConcInit /\ [][ConcNext]_vars

\* the outcome of the run as its caller sees it
Status ==
    IF pc # "done" THEN "Running"
    ELSE IF raised = None THEN "Succeeded"
    ELSE IF raised = "SpecConfigException" THEN "ConflictError"
    ELSE "Failed"

TypeOK ==
    /\ opts \in Options
    /\ pc \in {"conflicts", "process", "_run", "replace_teardown", "bootstrap",
               "bootstrap_add_model", "add_model", "pull", "deploy", "config",
               "wait", "waiting", "teardown", "done"}
    /\ cfg_i \in 1..(MaxConfig + 1)
    /\ other \in [charm_pull_path : {None} \cup
                                       {CharmPullPath(t) : t \in UuidSuffixes},
                  tmp_file_path   : {None, mkstemp_other}]

-----------------------------------------------------------------------------
(* Reading the trace *)

\* the names of the commands issued, in order
OpNames == [i \in DOMAIN trace |-> trace[i].op]

\* the positions of the commands named `op`
Issued(op) == {i \in DOMAIN trace : trace[i].op = op}

\* process() was called and has returned or raised
ProcessEnded == pc = "done" /\ raised # "SpecConfigException"

\* the commands whose failure ends the run
FatalOps == {"bootstrap", "add-model", "pull", "deploy", "config-set", "wait"}

IsConfigSet(e) == e.op = "config-set"

-----------------------------------------------------------------------------
(* C1 *)

\* C1: when both a bundle and a charm are given, no command is ever issued
\* and the run ends with the configuration conflict error, whatever the
\* other options are.
C1_ConflictIssuesNothing ==
    (opts.deploy.bundle # None /\ opts.deploy.charm # None) =>
        /\ trace = <<>>
        /\ pc \in {"conflicts", "done"}
        /\ pc = "done" => Status = "ConflictError"

C1_Witness ==
    /\ opts.deploy.bundle # None /\ opts.deploy.charm # None
    /\ opts.bootstrap.present /\ opts.teardown
    /\ pc = "done" /\ raised = "SpecConfigException"

-----------------------------------------------------------------------------
(* C2 *)

\* C2: with a runner override, process() issues the override script and
\* nothing else, whether the script succeeds or fails, whatever the other
\* options are.
C2_OverrideIsTheOnlyCommand ==
    opts.bootstrap.run # None =>
        /\ Len(trace) <= 1
        /\ \A i \in DOMAIN trace : trace[i].op = "run-override"
        /\ ProcessEnded =>
              /\ OpNames = <<"run-override">>
              /\ Status = (IF trace[1].res = "ok" THEN "Succeeded" ELSE "Failed")

C2_Witness ==
    /\ opts.bootstrap.run # None
    /\ opts.bootstrap.replace_controller /\ opts.deploy.present
    /\ opts.deploy.wait /\ opts.teardown /\ Len(opts.config) > 0
    /\ ProcessEnded
    /\ OpNames = <<"run-override">> /\ trace[1].res = "error"

-----------------------------------------------------------------------------
(* C3 *)

\* the run has issued a command of the deploy phase
InDeployPhase == \E i \in DOMAIN trace : trace[i].by \in {"_add_model", "_deploy"}

\* C3 as stated: with reuse no bootstrap is issued, and the run proceeds to
\* the deploy phase whenever a deploy is requested.
C3_Original ==
    opts.deploy.reuse =>
        /\ Issued("bootstrap") = {}
        /\ (ProcessEnded /\ opts.deploy.present) => InDeployPhase

\* C3 amended: with reuse no bootstrap command (nor any other command of
\* _bootstrap) is issued; and when no runner override is set the run
\* proceeds to the deploy phase.
C3_ReuseSkipsBootstrap ==
    opts.deploy.reuse =>
        /\ Issued("bootstrap") = {}
        /\ \A i \in DOMAIN trace : trace[i].by # "_bootstrap"
        /\ (ProcessEnded /\ opts.deploy.present /\ opts.bootstrap.run = None)
              => /\ InDeployPhase
                 /\ trace[1].by \in {"_add_model", "_deploy"}

C3_Witness ==
    /\ opts.deploy.reuse /\ opts.bootstrap.present
    /\ opts.bootstrap.run = None
    /\ ProcessEnded
    /\ Issued("deploy") # {}

-----------------------------------------------------------------------------
(* C4 *)

\* C4 as stated: replace-controller with a requested bootstrap always gives
\* a teardown and then a bootstrap.
C4_Original ==
    (ProcessEnded /\ opts.bootstrap.replace_controller /\ opts.bootstrap.present)
        => \E i, j \in DOMAIN trace :
              /\ i < j
              /\ trace[i].op = "teardown"
              /\ trace[j].op = "bootstrap"

\* C4 amended: when the bootstrap phase is entered (bootstrap requested, no
\* reuse, no runner override) with replace-controller, the first command is
\* the teardown and the second is the bootstrap, whether or not the teardown
\* failed; a bootstrap is never issued without that teardown before it.
C4_TeardownThenBootstrap ==
    (opts.bootstrap.replace_controller /\ opts.bootstrap.present
        /\ ~opts.deploy.reuse /\ opts.bootstrap.run = None) =>
        /\ \A j \in Issued("bootstrap") :
              j = 2 /\ trace[1].op = "teardown" /\ trace[1].by = "_bootstrap"
        /\ (Len(trace) = 1 /\ trace[1].op = "teardown") => pc = "bootstrap"
        /\ ProcessEnded =>
              /\ Len(trace) >= 2
              /\ trace[1].op = "teardown"
              /\ trace[2].op = "bootstrap"

C4_Witness ==
    /\ opts.bootstrap.replace_controller /\ opts.bootstrap.present
    /\ ~opts.deploy.reuse /\ opts.bootstrap.run = None
    /\ ProcessEnded
    /\ trace[1].op = "teardown" /\ trace[1].res = "error"
    /\ trace[2].op = "bootstrap" /\ trace[2].res = "ok"

-----------------------------------------------------------------------------
(* C5 *)

\* C5: with disable-add-model and a requested deploy, _bootstrap issues no
\* add-model; add-model is issued at most once, after every command of
\* _bootstrap and before any pull or deploy; and a run that gets past the
\* bootstrap phase issues it exactly once.
C5_AddModelBeforeDeploy ==
    (opts.bootstrap.disable_add_model /\ opts.deploy.present) =>
        /\ \A i \in Issued("add-model") : trace[i].by = "_add_model"
        /\ Cardinality(Issued("add-model")) <= 1
        /\ \A j \in Issued("pull") \cup Issued("deploy") :
              \E i \in Issued("add-model") : i < j /\ trace[i].res = "ok"
        /\ \A i \in Issued("add-model") :
              \A k \in DOMAIN trace : trace[k].by = "_bootstrap" => k < i
        /\ (ProcessEnded /\ opts.bootstrap.run = None
              /\ \A k \in Issued("bootstrap") : trace[k].res = "ok")
              => Cardinality(Issued("add-model")) = 1

C5_Witness ==
    /\ opts.bootstrap.disable_add_model /\ opts.deploy.present
    /\ ProcessEnded
    /\ \E b \in Issued("bootstrap"), a \in Issued("add-model"),
          p \in Issued("pull"), d \in Issued("deploy") :
          b < a /\ a < p /\ p < d

-----------------------------------------------------------------------------
(* C6 *)

\* the position of `flag` in an argument list, 0 when it is absent
PosOf(args, flag) ==
    IF \E i \in DOMAIN args : args[i] = flag
    THEN CHOOSE i \in DOMAIN args : args[i] = flag
    ELSE 0

\* `flag` is at position p of args and `value` right after it
FlagWithValue(args, flag, value) ==
    LET q == PosOf(args, flag) IN q > 3 /\ q < Len(args) /\ args[q + 1] = value

\* the five optional deploy options are all set
AllFiveSet ==
    /\ opts.deploy.overlay # None /\ opts.deploy.channel # None
    /\ opts.deploy.constraints # None /\ opts.deploy.series # None
    /\ opts.force

\* C6 as stated: with all five options set, every deploy command carries
\* --overlay, --channel, --constraints, --series, --force in that order
\* after "-m <controller>:<model> <target>".
C6_Original ==
    \A i \in Issued("deploy") :
        AllFiveSet =>
            /\ Len(trace[i].args) = 12
            /\ SubSeq(trace[i].args, 4, 12) =
                 <<"--overlay", "/tmp/tmpovl", "--channel", "edge",
                   "--constraints", "'mem=4G'", "--series", "focal", "--force">>

\* C6 amended: a deploy command is "-m <controller>:<model> <target>" and
\* then, in this order, --overlay <file> (present iff overlay and bundle are
\* both set), --channel C, --constraints 'C', --series S, --force (each
\* present iff its option is set), and nothing else; with all five set and a
\* bundle as the target the tail is exactly the full sequence.
C6_DeployArgOrder ==
    \A i \in Issued("deploy") :
        LET a   == trace[i].args
            ovl == opts.deploy.overlay # None /\ opts.deploy.bundle # None
            chn == opts.deploy.channel # None
            cns == opts.deploy.constraints # None
            ser == opts.deploy.series # None
            n   == (IF ovl THEN 2 ELSE 0) + (IF chn THEN 2 ELSE 0)
                   + (IF cns THEN 2 ELSE 0) + (IF ser THEN 2 ELSE 0)
                   + (IF opts.force THEN 1 ELSE 0)
            present == {f \in {"--overlay", "--channel", "--constraints",
                               "--series", "--force"} : PosOf(a, f) # 0}
            rank == [f \in present |->
                        CASE f = "--overlay" -> 1 [] f = "--channel" -> 2
                          [] f = "--constraints" -> 3 [] f = "--series" -> 4
                          [] f = "--force" -> 5]
        IN  /\ Len(a) = 3 + n
            /\ a[1] = "-m" /\ a[2] = "c1:m1"
            /\ ovl <=> FlagWithValue(a, "--overlay", "/tmp/tmpovl")
            /\ chn <=> FlagWithValue(a, "--channel", "edge")
            /\ cns <=> FlagWithValue(a, "--constraints", "'mem=4G'")
            /\ ser <=> FlagWithValue(a, "--series", "focal")
            /\ opts.force <=> (PosOf(a, "--force") = Len(a) /\ Len(a) > 3)
            /\ ~ovl => PosOf(a, "--overlay") = 0
            /\ \A f, g \in present :
                  rank[f] < rank[g] => PosOf(a, f) < PosOf(a, g)
            /\ (AllFiveSet /\ opts.deploy.bundle # None) =>
                  SubSeq(a, 4, Len(a)) =
                     <<"--overlay", "/tmp/tmpovl", "--channel", "edge",
                       "--constraints", "'mem=4G'", "--series", "focal",
                       "--force">>

C6_Witness ==
    /\ AllFiveSet /\ opts.deploy.bundle = "bundles/my.yaml"
    /\ \E i \in Issued("deploy") :
          trace[i].args =
             <<"-m", "c1:m1", "bundles/my.yaml",
               "--overlay", "/tmp/tmpovl", "--channel", "edge",
               "--constraints", "'mem=4G'", "--series", "focal", "--force">>

-----------------------------------------------------------------------------
(* C7 *)

\* the options of the scenario: bootstrap and deploy of a charmstore bundle
\* from a channel, waiting, with nothing else switched on
C7_Scenario ==
    /\ opts.bootstrap.present /\ ~opts.bootstrap.replace_controller
    /\ ~opts.bootstrap.disable_add_model /\ opts.bootstrap.run = None
    /\ opts.deploy.present /\ ~opts.deploy.reuse
    /\ opts.deploy.bundle = "cs:~org/bundle" /\ opts.deploy.charm = None
    /\ opts.deploy.channel # None /\ opts.deploy.wait
    /\ opts.config = <<>> /\ ~opts.teardown

\* C7: in the scenario, when every command succeeds, the commands issued
\* are exactly bootstrap, add-model, pull, deploy, wait and the run
\* succeeds; and the run succeeds only if every command succeeded.
C7_HappyPathOrder ==
    (C7_Scenario /\ pc = "done") =>
        /\ (\A i \in DOMAIN trace : trace[i].res = "ok") =>
              /\ OpNames = <<"bootstrap", "add-model", "pull", "deploy", "wait">>
              /\ Status = "Succeeded"
        /\ Status = "Succeeded" => \A i \in DOMAIN trace : trace[i].res = "ok"

C7_Witness ==
    /\ C7_Scenario /\ pc = "done" /\ Status = "Succeeded"
    /\ Len(trace) = 5 /\ trace[5].op = "wait" /\ trace[5].res = "ok"

-----------------------------------------------------------------------------
(* C8 *)

\* C8: a juju-wait that is stopped by its timeout is the last command of
\* the run; it is only issued when deploy.wait is set and after the deploy,
\* it carries the timeout bound (deploy.timeout, 7200 when unset), the
\* run ends at once as Failed with the timeout as the reason, and every
\* bootstrap, add-model, pull and deploy before it had succeeded.
C8_WaitTimeoutFails ==
    \A i \in Issued("wait") :
        /\ opts.deploy.wait
        /\ trace[i].args[5] =
              "_timeout=" \o (IF opts.deploy.timeout = NoTimeout
                              THEN "7200" ELSE ToString(opts.deploy.timeout))
        /\ \E d \in Issued("deploy") : d < i
        /\ trace[i].res = "timeout" =>
              /\ i = Len(trace)
              /\ pc = "done"
              /\ Status = "Failed"
              /\ raised = "TimeoutException"
              /\ \A k \in 1..(i - 1) :
                    trace[k].op \in {"bootstrap", "add-model", "pull", "deploy"}
                       => trace[k].res = "ok"

C8_Witness ==
    /\ C7_Scenario /\ opts.deploy.timeout = 10
    /\ pc = "done" /\ Status = "Failed"
    /\ OpNames = <<"bootstrap", "add-model", "pull", "deploy", "wait">>
    /\ trace[5].res = "timeout"

-----------------------------------------------------------------------------
(* C9 *)

\* C9: the config commands are issued in the order of the config list, the
\* k-th for the k-th entry; a config command that fails is the last command
\* of the run, which ends Failed, so that every config command before it
\* succeeded and none is issued after it; a run that succeeds with a deploy
\* has issued one config command per entry.
C9_ConfigStopsAtFirstFailure ==
    LET c == SelectSeq(trace, IsConfigSet) IN
        /\ Len(c) <= Len(opts.config)
        /\ \A k \in 1..Len(c) :
              /\ c[k].args = <<"-m", "c1:m1", "app" \o ToString(k), "x=true">>
              /\ c[k].res # "ok" =>
                    /\ k = Len(c)
                    /\ trace[Len(trace)] = c[k]
                    /\ pc = "done"
                    /\ Status = "Failed"
        /\ \A i, j \in Issued("config-set") :
              i < j => \A m \in i..j : trace[m].op = "config-set"
        /\ (Status = "Succeeded" /\ opts.deploy.present
              /\ opts.bootstrap.run = None) => Len(c) = Len(opts.config)

C9_Witness ==
    /\ Len(opts.config) = 2
    /\ pc = "done" /\ Status = "Failed"
    /\ Cardinality(Issued("config-set")) = 2
    /\ trace[Len(trace)].op = "config-set"
    /\ trace[Len(trace)].res = "error"
    /\ trace[Len(trace) - 1].op = "config-set"
    /\ trace[Len(trace) - 1].res = "ok"

-----------------------------------------------------------------------------
(* C10 *)

\* C10: a failed bootstrap, add-model, pull, deploy, config or wait command
\* is the last command of the run and the run is over, as Failed: nothing,
\* not even the requested teardown, is issued after it.
C10_FatalFailureHalts ==
    \A i \in DOMAIN trace :
        (trace[i].op \in FatalOps /\ trace[i].res # "ok") =>
            /\ i = Len(trace)
            /\ pc = "done"
            /\ Status = "Failed"

C10_Witness ==
    /\ opts.teardown
    /\ pc = "done" /\ Status = "Failed"
    /\ trace # <<>>
    /\ trace[Len(trace)].op = "deploy" /\ trace[Len(trace)].res = "error"

-----------------------------------------------------------------------------
(* C11 *)

\* C11: a process() call without runner override that ends without a
\* failure has the destroy-controller of process as its last command if
\* and only if the teardown option is set, whatever bootstrap, reuse and
\* deploy are; and the teardown of process is never issued without the
\* option.
C11_TeardownIffRequested ==
    /\ \A i \in Issued("teardown") :
          trace[i].by = "process" =>
              /\ opts.teardown
              /\ i = Len(trace)
              /\ pc = "done"
              /\ trace[i].args =
                    <<"destroy-controller", "--destroy-all-models",
                      "--destroy-storage", "-y", "c1">>
    /\ (Status = "Succeeded" /\ opts.bootstrap.run = None) =>
          (opts.teardown <=>
              /\ trace # <<>>
              /\ trace[Len(trace)].op = "teardown"
              /\ trace[Len(trace)].by = "process")

C11_Witness ==
    /\ ~opts.bootstrap.present /\ ~opts.deploy.present /\ opts.teardown
    /\ Status = "Succeeded"
    /\ OpNames = <<"teardown">>

-----------------------------------------------------------------------------
(* C12 *)

\* C12: a failed destroy-controller never ends the run with an error: a run
\* whose last command is the failed teardown of process ends Succeeded, and
\* a run that ends Failed ends on a failed command other than a teardown.
C12_TeardownFailureNotFatal ==
    /\ \A i \in Issued("teardown") :
          (trace[i].res # "ok" /\ i = Len(trace)) => raised = None
    /\ (pc = "done" /\ trace # <<>>
          /\ trace[Len(trace)].op = "teardown"
          /\ trace[Len(trace)].by = "process") => Status = "Succeeded"
    /\ Status = "Failed" =>
          /\ trace # <<>>
          /\ trace[Len(trace)].op # "teardown"
          /\ trace[Len(trace)].res # "ok"

C12_Witness ==
    /\ opts.bootstrap.present /\ opts.deploy.present /\ opts.teardown
    /\ Status = "Succeeded"
    /\ Len(trace) >= 3
    /\ trace[Len(trace)].op = "teardown"
    /\ trace[Len(trace)].res = "error"
    /\ \A i \in 1..(Len(trace) - 1) : trace[i].res = "ok"

-----------------------------------------------------------------------------
(* C13 *)

\* the place of a command in the order of the phases
PhaseRank(e) ==
    CASE e.op = "teardown" /\ e.by = "_bootstrap"    -> 1
      [] e.op = "bootstrap"                          -> 2
      [] e.op = "add-model" /\ e.by = "_bootstrap"   -> 3
      [] e.op = "add-model" /\ e.by = "_add_model"   -> 4
      [] e.op = "pull"                               -> 5
      [] e.op = "deploy"                             -> 6
      [] e.op = "config-set"                         -> 7
      [] e.op = "wait"                               -> 8
      [] e.op = "teardown" /\ e.by = "process"       -> 9
      [] OTHER                                       -> 0

\* C13: without runner override the commands are issued in the order
\* replace teardown, bootstrap, add-model of the bootstrap, add-model of the
\* deploy, pull, deploy, config commands, wait, final teardown: no command of
\* an earlier phase follows a command of a later one, and only the config
\* phase issues more than one command.
C13_PhaseOrder ==
    opts.bootstrap.run = None =>
        /\ \A i \in DOMAIN trace : PhaseRank(trace[i]) \in 1..9
        /\ \A i, j \in DOMAIN trace :
              i < j =>
                 /\ PhaseRank(trace[i]) <= PhaseRank(trace[j])
                 /\ PhaseRank(trace[i]) = PhaseRank(trace[j])
                       => trace[i].op = "config-set"

C13_Witness ==
    /\ opts.bootstrap.run = None
    /\ pc = "done"
    /\ Len(trace) = 8
    /\ [i \in 1..8 |-> PhaseRank(trace[i])] = <<1, 2, 4, 5, 6, 7, 7, 8>>

-----------------------------------------------------------------------------
(* C14 *)

\* C14 as stated: a run with a deploy that goes through issues juju-wait
\* after the config commands even when deploy.wait is not set, and twice when
\* it is set.
C14_Original ==
    (Status = "Succeeded" /\ opts.deploy.present /\ opts.bootstrap.run = None)
        => Cardinality(Issued("wait")) = (IF opts.deploy.wait THEN 2 ELSE 1)

\* C14 amended: juju-wait is issued at most once in a run, only when
\* deploy.wait is set, after the deploy and after every config command; a
\* run with a deploy that goes through issues it exactly when deploy.wait is
\* set, and never when it is not.
C14_WaitOnceIffRequested ==
    /\ Cardinality(Issued("wait")) <= 1
    /\ \A w \in Issued("wait") :
          /\ opts.deploy.wait /\ opts.deploy.present
          /\ \E d \in Issued("deploy") : d < w
          /\ Cardinality(Issued("config-set")) = Len(opts.config)
          /\ \A c \in Issued("config-set") : c < w
    /\ (Status = "Succeeded" /\ opts.deploy.present /\ opts.bootstrap.run = None)
          => Cardinality(Issued("wait")) = (IF opts.deploy.wait THEN 1 ELSE 0)

C14_Witness ==
    /\ opts.deploy.present /\ ~opts.deploy.wait /\ opts.bootstrap.run = None
    /\ Len(opts.config) = 2
    /\ Status = "Succeeded"
    /\ Cardinality(Issued("config-set")) = 2
    /\ Issued("wait") = {}

-----------------------------------------------------------------------------
(* C15 *)

\* C15: the charm pull of a charmstore bundle is "<bundle> [--channel C]
\* <local path>": its last argument is the freshly generated local path,
\* with or without a channel, and the deploy that follows targets
\* "<that path>/bundle.yaml".
C15_PullEndsWithLocalPath ==
    \A p \in Issued("pull") :
        LET a == trace[p].args IN
        /\ a[1] = opts.deploy.bundle
        /\ a[Len(a)] = charm_pull_path
        /\ Len(a) = (IF opts.deploy.channel # None THEN 4 ELSE 2)
        /\ opts.deploy.channel # None =>
              a[2] = "--channel" /\ a[3] = opts.deploy.channel
        /\ \A d \in Issued("deploy") :
              trace[d].args[3] = a[Len(a)] \o "/bundle.yaml"

-----------------------------------------------------------------------------
(* C16 *)

\* C16: what _deploy deploys.  With a charm: the charm reference, and no
\* pull.  Otherwise with a "cs:" bundle: exactly one pull, right before the
\* deploy, and no deploy when the pull fails.  Otherwise: the bundle as
\* given, and no pull.  A pull is only ever issued for a "cs:" bundle
\* without a charm, and by the time of the deploy it has been issued exactly
\* in that case.
C16_TargetResolution ==
    /\ Cardinality(Issued("pull")) <= 1
    /\ \A p \in Issued("pull") :
          /\ opts.deploy.charm = None
          /\ opts.deploy.bundle = "cs:~org/bundle"
          /\ trace[p].res # "ok" =>
                /\ p = Len(trace) /\ pc = "done" /\ Status = "Failed"
                /\ Issued("deploy") = {}
    /\ pc = "deploy" =>
          (Issued("pull") # {} <=>
              (opts.deploy.charm = None
                  /\ opts.deploy.bundle = "cs:~org/bundle"))
    /\ \A d \in Issued("deploy") :
          IF opts.deploy.charm # None
          THEN /\ trace[d].args[3] = "cs:~org/charm"
               /\ Issued("pull") = {}
          ELSE IF opts.deploy.bundle = "cs:~org/bundle"
          THEN /\ Issued("pull") = {d - 1}
               /\ trace[d - 1].res = "ok"
               /\ trace[d].args[3] \in
                     {"/tmp/uuid" \o ToString(n) \o "/bundle.yaml" :
                         n \in 1..MaxUuid}
          ELSE /\ trace[d].args[3] = "bundles/my.yaml"
               /\ Issued("pull") = {}

C16_Witness ==
    /\ opts.deploy.charm = None /\ opts.deploy.bundle = "cs:~org/bundle"
    /\ opts.bootstrap.present
    /\ pc = "done"
    /\ \E d \in Issued("deploy") : Issued("pull") = {d - 1}

-----------------------------------------------------------------------------
(* C17 *)

\* C17 as stated: whenever the overlay is set, the deploy command carries
\* "--overlay <temp file>", however the target was resolved.
C17_Original ==
    \A d \in Issued("deploy") :
        opts.deploy.overlay # None =>
            /\ Len(trace[d].args) >= 5
            /\ trace[d].args[4] = "--overlay"
            /\ trace[d].args[5] = "/tmp/tmpovl"

\* C17 amended: the deploy command carries "--overlay <temp file>", right
\* after the target, exactly when the overlay is set and the target comes
\* from a bundle (pulled from the charmstore or given as a path); the deploy
\* of a charm never carries --overlay.
C17_OverlayOnlyForBundles ==
    \A d \in Issued("deploy") :
        LET a == trace[d].args
            carries == /\ Len(a) >= 5
                       /\ a[4] = "--overlay"
                       /\ a[5] = "/tmp/tmpovl"
        IN  /\ carries <=> (opts.deploy.overlay # None
                               /\ opts.deploy.bundle \in BundleRefs)
            /\ opts.deploy.charm # None =>
                  \A k \in DOMAIN a : a[k] # "--overlay"

C17_Witness ==
    /\ opts.deploy.overlay # None
    /\ opts.deploy.bundle = "cs:~org/bundle"
    /\ opts.deploy.channel = None /\ opts.deploy.series = None
    /\ \E d \in Issued("deploy") :
          /\ Len(trace[d].args) >= 5
          /\ trace[d].args[4] = "--overlay"
          /\ trace[d].args[5] = "/tmp/tmpovl"

-----------------------------------------------------------------------------
(* C18 *)

\* C18: after a bootstrap that succeeded, without disable-add-model, the
\* next command is "add-model -c <controller> <model> <cloud>"; when that
\* add-model fails the run ends Failed with no deploy; after a bootstrap
\* that failed no add-model is issued.
C18_AddModelFollowsBootstrap ==
    \A b \in Issued("bootstrap") :
        /\ (trace[b].res = "ok" /\ ~opts.bootstrap.disable_add_model) =>
              IF b = Len(trace)
              THEN pc = "bootstrap_add_model"
              ELSE /\ trace[b + 1].op = "add-model"
                   /\ trace[b + 1].args = <<"add-model", "-c", "c1", "m1", "aws">>
                   /\ trace[b + 1].res # "ok" =>
                         /\ b + 1 = Len(trace)
                         /\ pc = "done" /\ Status = "Failed"
                         /\ Issued("deploy") = {} /\ Issued("pull") = {}
        /\ trace[b].res # "ok" =>
              /\ Issued("add-model") = {}
              /\ b = Len(trace) /\ pc = "done" /\ Status = "Failed"

C18_Witness ==
    /\ ~opts.bootstrap.disable_add_model /\ opts.deploy.present
    /\ pc = "done" /\ Status = "Failed"
    /\ \E b \in Issued("bootstrap") :
          /\ trace[b].res = "ok"
          /\ Len(trace) = b + 1
          /\ trace[b + 1].op = "add-model"
          /\ trace[b + 1].res = "error"

-----------------------------------------------------------------------------
(* C19 *)

\* the pairs <<flag, entries[1]>>, <<flag, entries[2]>>, ... laid end to end
Pairs(flag, entries) ==
    [k \in 1..(2 * Len(entries)) |->
        IF k % 2 = 1 THEN flag ELSE entries[k \div 2]]

\* how many times `flag` occurs in an argument list
CountOf(args, flag) == Cardinality({k \in DOMAIN args : args[k] = flag})

\* C19: the bootstrap command is "bootstrap <cloud> <controller>", then
\* --bootstrap-constraints C, --bootstrap-series S, --force, each if set,
\* then one "--model-default D" per model default and one "--config C" per
\* bootstrap config entry, in the order of their lists, then --debug if set;
\* there are as many --model-default and --config flags as list entries.
C19_BootstrapArgs ==
    \A b \in Issued("bootstrap") :
        LET a  == trace[b].args
            bo == opts.bootstrap
        IN  /\ a = <<"bootstrap", "aws", "c1">>
                   \o (IF bo.constraints # None
                       THEN <<"--bootstrap-constraints", "cores=2">> ELSE <<>>)
                   \o (IF bo.series # None
                       THEN <<"--bootstrap-series", "bionic">> ELSE <<>>)
                   \o (IF opts.force THEN <<"--force">> ELSE <<>>)
                   \o Pairs("--model-default", bo.model_default)
                   \o Pairs("--config", bo.config)
                   \o (IF bo.debug THEN <<"--debug">> ELSE <<>>)
            /\ CountOf(a, "--model-default") = Len(bo.model_default)
            /\ CountOf(a, "--config") = Len(bo.config)

C19_Witness ==
    /\ opts.bootstrap.constraints # None /\ opts.bootstrap.series # None
    /\ opts.force /\ opts.bootstrap.debug
    /\ Len(opts.bootstrap.model_default) = 2 /\ Len(opts.bootstrap.config) = 2
    /\ \E b \in Issued("bootstrap") :
          trace[b].args =
             <<"bootstrap", "aws", "c1",
               "--bootstrap-constraints", "cores=2",
               "--bootstrap-series", "bionic", "--force",
               "--model-default", "md1=true", "--model-default", "md2=true",
               "--config", "cd1=1", "--config", "cd2=1", "--debug">>

-----------------------------------------------------------------------------
(* C20 *)

\* C20: nothing is issued twice in a run: at most one runner override,
\* bootstrap, add-model, pull, deploy and wait; at most one config command
\* per config entry, each for a different entry; at most one teardown by
\* _bootstrap and one by process, two in all; and a command that failed is
\* never followed by the same command again.
C20_NoRetry ==
    /\ \A op \in {"run-override", "bootstrap", "add-model", "pull",
                  "deploy", "wait"} : Cardinality(Issued(op)) <= 1
    /\ Cardinality(Issued("config-set")) <= Len(opts.config)
    /\ \A i, j \in Issued("config-set") :
          i # j => trace[i].args # trace[j].args
    /\ Cardinality(Issued("teardown")) <= 2
    /\ \A i, j \in Issued("teardown") : i # j => trace[i].by # trace[j].by
    /\ \A i, j \in DOMAIN trace :
          (i < j /\ trace[i].res # "ok") =>
              ~(/\ trace[j].op = trace[i].op
                /\ trace[j].by = trace[i].by
                /\ trace[j].args = trace[i].args)

C20_Witness ==
    /\ pc = "done"
    /\ Cardinality(Issued("teardown")) = 2
    /\ trace[1].op = "teardown" /\ trace[1].res = "error"
    /\ Cardinality(Issued("config-set")) = 2
    /\ trace[Len(trace)].op = "teardown"

-----------------------------------------------------------------------------
(* C23 *)

\* C23: the teardown of replace-controller belongs to the bootstrap phase
\* only.  In a run with deploy.reuse set (or without a bootstrap section)
\* nothing is issued by _bootstrap, replace-controller or not: every
\* teardown of such a run is the one process issues at its end, it is
\* there only if the teardown option is set, there is at most one, and it
\* is the last command of the run, so none precedes the deploy phase.
C23_ReuseNeverReplaces ==
    (opts.deploy.reuse \/ ~opts.bootstrap.present) =>
        /\ \A i \in DOMAIN trace : trace[i].by # "_bootstrap"
        /\ Cardinality(Issued("teardown")) <= 1
        /\ \A i \in Issued("teardown") :
              /\ trace[i].by = "process"
              /\ opts.teardown
              /\ i = Len(trace)
              /\ pc = "done"

C23_Witness ==
    /\ opts.deploy.reuse
    /\ opts.bootstrap.present
    /\ opts.bootstrap.replace_controller
    /\ opts.teardown
    /\ pc = "done"
    /\ raised = None
    /\ Issued("deploy") # {}
    /\ Issued("teardown") = {Len(trace)}
    /\ trace[Len(trace)].by = "process"

-----------------------------------------------------------------------------
(* C21 *)

\* C21: every run eventually reaches Done.  If every command other than
\* juju-wait returns, a run is never blocked in the wait phase: juju-wait
\* ends when the deployment settles, when it fails, or when its timer
\* fires, and the timer is always armed, with deploy.timeout or with 7200
\* when that is unset, so the run ends even if the deployment never
\* settles and juju-wait never fails.
C21_EventuallyDone ==
    /\ [](\A i \in Issued("wait") :
             /\ trace[i].res \in {"ok", "error", "timeout"}
             /\ trace[i].args[5] =
                  "_timeout=" \o (IF opts.deploy.timeout = NoTimeout
                                  THEN "7200"
                                  ELSE ToString(opts.deploy.timeout)))
    /\ <>(pc = "done")

\* the deployment never settled, deploy.timeout is unset, and the run has
\* ended on the timer of 7200 seconds
C21_Witness ==
    /\ pc = "done"
    /\ opts.deploy.wait
    /\ opts.deploy.timeout = NoTimeout
    /\ Issued("wait") = {Len(trace)}
    /\ trace[Len(trace)].res = "timeout"
    /\ trace[Len(trace)].args[5] = "_timeout=7200"
    /\ raised = "TimeoutException"

-----------------------------------------------------------------------------
(* C22 *)

\* C22: temporary names are unique across concurrent runs: the local path
\* a run generates for a pulled charmstore bundle is never the path a
\* concurrent run generates for its own, and the overlay file a run
\* deploys with is never the overlay file of the other run.
C22_UniqueTempNames ==
    /\ (charm_pull_path # None /\ other.charm_pull_path # None) =>
           charm_pull_path # other.charm_pull_path
    /\ other.tmp_file_path # None =>
           \A i \in Issued("deploy") :
              \A k \in DOMAIN trace[i].args :
                 trace[i].args[k] # other.tmp_file_path

====
